---- MODULE Spec2Model ----
(***************************************************************************)
(* A model of webusb.py: main, test_device, the MS OS 1.0 / 2.0 descriptor *)
(* readers and the BOS capability walk, with the libusb transport as the   *)
(* environment that answers every call.                                    *)
(*                                                                         *)
(* Buffers are sequences of bytes; byte k of a buffer b is b[k + 1].       *)
(* Strings the program builds or compares are sequences of characters.     *)
(***************************************************************************)
EXTENDS Integers, Sequences, FiniteSets, TLC

\* ------------------------------------------------------------------------
\* Bounds of the model

\* the largest bNumDeviceCaps of a BOS descriptor the device answers with
MaxCaps == 2

\* ------------------------------------------------------------------------
\* Program constants

MS_OS_DESC_STRING_INDEX == 238
MS_OS_DESC_STRING_LENGTH == 18
MS_OS_DESC_VENDOR_CODE_OFFSET == 16

LIBUSB_ENDPOINT_IN == 128
LIBUSB_REQUEST_TYPE_VENDOR == 64
LIBUSB_RECIPIENT_DEVICE == 0
LIBUSB_DT_STRING == 3
LIBUSB_SUCCESS == 0

\* bDevCapabilityType values of libusb and the platform capability type
LIBUSB_BT_USB_2_0_EXTENSION == 2
LIBUSB_BT_SS_USB_DEVICE_CAPABILITY == 3
LIBUSB_BT_CONTAINER_ID == 4
PLATFORM_CAPABILITY == 5

\* ms_os_desc_string: (c_uint8 * 16) holding 0x12, 0x03, "MSFT100" in UTF-16LE
ms_os_desc_string ==
    << MS_OS_DESC_STRING_LENGTH, LIBUSB_DT_STRING,
       77, 0, 83, 0, 70, 0, 84, 0, 49, 0, 48, 0, 48, 0 >>

\* sizeof(ms_os_desc_string)
SizeofMsOsDescString == Len(ms_os_desc_string)

WEBUSB_PLATFORM_CAPABILITY_UUID ==
    << "{", "3","4","0","8","B","6","3","8", "-", "0","9","A","9", "-",
       "4","7","A","0", "-", "8","B","F","D", "-",
       "A","0","7","6","8","8","1","5","B","6","6","5", "}" >>

MS_OS_20_PLATFORM_CAPABILITY_UUID ==
    << "{", "D","8","D","D","6","0","D","F", "-", "4","5","8","9", "-",
       "4","C","C","7", "-", "9","C","D","2", "-",
       "6","5","9","D","9","E","6","4","8","A","9","F", "}" >>

\* ------------------------------------------------------------------------
\* Pure helpers

\* a | b on naturals
RECURSIVE BitOr(_, _)
BitOr(a, b) ==
    IF a = 0 THEN b
    ELSE IF b = 0 THEN a
    ELSE (IF a % 2 = 1 \/ b % 2 = 1 THEN 1 ELSE 0) + 2 * BitOr(a \div 2, b \div 2)

\* a << n
ShiftLeft(a, n) == a * (2 ^ n)

\* buf[off] of a ctypes array: byte off of the buffer
At(buf, off) == buf[off + 1]

\* cast(desc, POINTER(c_uint32))[idx] on a little-endian host
ReadU32(buf, idx) ==
    At(buf, 4 * idx) + 256 * At(buf, 4 * idx + 1)
      + 65536 * At(buf, 4 * idx + 2) + 16777216 * At(buf, 4 * idx + 3)

\* the 16-bit read with idx taken as a byte offset instead of an element index
ReadU16AtByteOffset(buf, idx) == At(buf, idx) + 256 * At(buf, idx + 1)

\* cast(pointer(desc), POINTER(c_uint16))[idx] on a little-endian host
ReadU16(buf, idx) == At(buf, 2 * idx) + 256 * At(buf, 2 * idx + 1)

\* (c_uint8 * n)(): a fresh zero-filled buffer
ZeroBuf(n) == [k \in 1..n |-> 0]

\* memcmp(a, b, size): the first nonzero difference a[i] - b[i], or 0
RECURSIVE MemcmpFrom(_, _, _, _)
MemcmpFrom(a, b, size, i) ==
    IF i >= size THEN 0
    ELSE IF At(a, i) - At(b, i) # 0 THEN At(a, i) - At(b, i)
    ELSE MemcmpFrom(a, b, size, i + 1)

\* a comparison that stops after the two length/type bytes
memcmpHeaderOnly(a, b, size) == MemcmpFrom(a, b, 2, 0)

memcmp(a, b, size) == MemcmpFrom(a, b, size, 0)

HexDigit == << "0","1","2","3","4","5","6","7","8","9","A","B","C","D","E","F" >>

\* the two digits with the low nibble first
Hex02LowNibbleFirst(b) == << HexDigit[(b % 16) + 1], HexDigit[(b \div 16) + 1] >>

\* "{:02X}".format(b)
Hex02(b) == << HexDigit[(b \div 16) + 1], HexDigit[(b % 16) + 1] >>

\* the sixteen bytes printed in buffer order, grouped 4-2-2-2-6
uuid_in_buffer_order(uuid) ==
    << "{" >> \o Hex02(At(uuid, 0)) \o Hex02(At(uuid, 1)) \o Hex02(At(uuid, 2))
             \o Hex02(At(uuid, 3))
    \o << "-" >> \o Hex02(At(uuid, 4)) \o Hex02(At(uuid, 5))
    \o << "-" >> \o Hex02(At(uuid, 6)) \o Hex02(At(uuid, 7))
    \o << "-" >> \o Hex02(At(uuid, 8)) \o Hex02(At(uuid, 9))
    \o << "-" >> \o Hex02(At(uuid, 10)) \o Hex02(At(uuid, 11)) \o Hex02(At(uuid, 12))
                \o Hex02(At(uuid, 13)) \o Hex02(At(uuid, 14)) \o Hex02(At(uuid, 15))
    \o << "}" >>

uuid_to_string(uuid) ==
    << "{" >> \o Hex02(At(uuid, 3)) \o Hex02(At(uuid, 2)) \o Hex02(At(uuid, 1))
             \o Hex02(At(uuid, 0))
    \o << "-" >> \o Hex02(At(uuid, 5)) \o Hex02(At(uuid, 4))
    \o << "-" >> \o Hex02(At(uuid, 7)) \o Hex02(At(uuid, 6))
    \o << "-" >> \o Hex02(At(uuid, 8)) \o Hex02(At(uuid, 9))
    \o << "-" >> \o Hex02(At(uuid, 10)) \o Hex02(At(uuid, 11)) \o Hex02(At(uuid, 12))
                \o Hex02(At(uuid, 13)) \o Hex02(At(uuid, 14)) \o Hex02(At(uuid, 15))
    \o << "}" >>

\* only a negative return counts as a failed transfer
MismatchOnErrorOnly(got, wanted) == got < 0

\* `r != length`: the transfer did not return exactly what was requested
Mismatch(got, wanted) == got # wanted

\* `not vendor_code`: None (modelled <<>>) and 0 are both falsy
Truthy(vc) == vc # << >> /\ vc[1] # 0

\* a line of output: the format string's text and its numeric argument
Line(text, val) == [text |-> text, val |-> val]

\* one call into the transport, as the program passes its arguments
Call(fn, rt, rq, v, ix, len) ==
    [fn |-> fn, bmRequestType |-> rt, bRequest |-> rq,
     wValue |-> v, wIndex |-> ix, wLength |-> len]

\* ------------------------------------------------------------------------
\* Command line parsing as main does it

\* s.find(':') < 0
HasNoColon(s) == \A k \in 1..Len(s) : s[k] # ":"

\* s.split(':'): the parts between the colons
RECURSIVE SplitFrom(_, _, _, _)
SplitFrom(s, k, cur, acc) ==
    IF k > Len(s) THEN Append(acc, cur)
    ELSE IF s[k] = ":" THEN SplitFrom(s, k + 1, << >>, Append(acc, cur))
    ELSE SplitFrom(s, k + 1, Append(cur, s[k]), acc)

Split(s) == SplitFrom(s, 1, << >>, << >>)

\* int(x, 16) raises ValueError unless x is a nonempty run of hex digits
IsHex(x) ==
    Len(x) > 0 /\ \A k \in 1..Len(x) : \E d \in 1..16 : HexDigit[d] = x[k]

RECURSIVE HexValue(_)
HexValue(x) ==
    IF x = << >> THEN 0
    ELSE 16 * HexValue(SubSeq(x, 1, Len(x) - 1))
           + ((CHOOSE d \in 1..16 : HexDigit[d] = x[Len(x)]) - 1)

\* ------------------------------------------------------------------------
\* What the environment may answer

\* sys.argv: the program name and up to three arguments
ArgvSet ==
    LET prog == << "w" >>
        dbg  == << "-", "d" >>
        bad  == << "-", "x" >>
        ids  == << "1", "A", ":", "2" >>
    IN { << prog >>,
         << prog, ids >>,
         << prog, dbg, ids >>,
         << prog, bad, ids >>,
         << prog, dbg, ids, ids >>,
         << prog, << "1", "A", "2" >> >>,
         << prog, << "1", "G", ":", "2" >> >>,
         << prog, << "1", "A", ":" >> >> }

\* a transfer's return value: a transport error, nothing, all of it, too much
RetVals(len) == { -1, 0, len, len + 1 }

\* bytes the device may declare as the OS string descriptor's bLength
OsLengths == { 0, 16, 17, 18 }

\* bytes the device may hold at the vendor-code offset
VendorCodes == { 0, 32 }

\* the 4-byte header of the OS string descriptor
OsHeaders == { << n, LIBUSB_DT_STRING, 77, 0 >> : n \in OsLengths }

\* an OS string descriptor of n bytes: the signature, the vendor code, a pad
OsDescriptor(n, vc) ==
    [k \in 1..n |->
        IF k = 1 THEN n
        ELSE IF k <= SizeofMsOsDescString THEN ms_os_desc_string[k]
        ELSE IF k = MS_OS_DESC_VENDOR_CODE_OFFSET + 1 THEN vc
        ELSE 0]

\* the 18 bytes of the fallback read, byte `bad` (if any) differing from the
\* signature descriptor followed by vendor code and pad
FallbackDescriptors ==
    { [k \in 1..MS_OS_DESC_STRING_LENGTH |->
         IF k = bad + 1
         THEN (OsDescriptor(MS_OS_DESC_STRING_LENGTH, vc)[k] + 1) % 256
         ELSE OsDescriptor(MS_OS_DESC_STRING_LENGTH, vc)[k]]
      : vc \in VendorCodes, bad \in { -1, 0, 15, 17 } }

\* headers of the Extended Compat ID descriptor: dwLength 40 and 272
ExtCompatHeaders ==
    { << 40, 0, 0, 0, 0, 1, 4, 0 >>, << 16, 1, 0, 0, 0, 1, 4, 0 >> }

\* headers of the MS OS 2.0 descriptor set: wTotalLength 178 and 266
MsOs20Headers ==
    { << 10, 0, 0, 0, 0, 0, 3, 6, 178, 0 >>, << 10, 0, 0, 0, 0, 0, 3, 6, 10, 1 >> }

\* string indices of the device descriptor: iManufacturer, iProduct, iSerialNumber
StringIndexSets == { << 0, 2, 0 >> }

\* what get_string_descriptor_ascii may return: a libusb error or a length
StringResults == { -1, 4 }

\* what get_port_numbers and get_device_speed may return
TopologySet == { << 2, 7 >> }

\* what a call answering only with a status may return
StatusResults == { -1, 0 }

\* PlatformCapabilityUUID bytes as they lie in the descriptor: the two
\* registered capabilities, and the same digits laid out in reading order
MsOs20UuidBytes ==
    << 223, 96, 221, 216, 137, 69, 199, 76, 156, 210, 101, 157, 158, 100, 138, 159 >>

WebUsbUuidBytes ==
    << 56, 182, 8, 52, 169, 9, 160, 71, 139, 253, 160, 118, 136, 21, 182, 101 >>

MsOs20DigitsInOrder ==
    << 216, 221, 96, 223, 69, 137, 76, 199, 156, 210, 101, 157, 158, 100, 138, 159 >>

WebUsbDigitsInOrder ==
    << 52, 8, 182, 56, 9, 169, 71, 160, 139, 253, 160, 118, 136, 21, 182, 101 >>

\* a 28-byte platform capability entry: header, UUID, 8 capability bytes
PlatformCap(uuidBytes, tail) == << 28, 16, PLATFORM_CAPABILITY, 0 >> \o uuidBytes \o tail

\* the capability entries a BOS descriptor may hold, as raw bytes
CapSet ==
    { << 7, 16, LIBUSB_BT_USB_2_0_EXTENSION, 2, 0, 0, 0 >>,
      << 10, 16, LIBUSB_BT_SS_USB_DEVICE_CAPABILITY, 0, 14, 0, 1, 10, 255, 7 >>,
      << 20, 16, LIBUSB_BT_CONTAINER_ID, 0 >> \o MsOs20DigitsInOrder,
      << 8, 16, 10, 0, 0, 0, 0, 0 >>,
      PlatformCap(MsOs20UuidBytes, << 0, 0, 3, 6, 178, 0, 33, 0 >>),
      PlatformCap(WebUsbUuidBytes, << 0, 1, 1, 1, 0, 0, 34, 0 >>),
      PlatformCap(MsOs20DigitsInOrder, << 0, 0, 3, 6, 178, 0, 35, 0 >>) }

\* a BOS descriptor: bNumDeviceCaps and that many dev_capability entries
BosSet ==
    { [bNumDeviceCaps |-> n, dev_capability |-> caps] :
        n \in 0..MaxCaps, caps \in UNION { [1..m -> CapSet] : m \in 0..MaxCaps } }

\* sixteen-byte buffers for uuid_to_string alone: the four above, and every
\* buffer with a single nonzero byte out of four values
UuidInputs ==
    { MsOs20UuidBytes, WebUsbUuidBytes, MsOs20DigitsInOrder, WebUsbDigitsInOrder }
    \cup { [k \in 1..16 |-> IF k = p THEN v ELSE 0] : p \in 1..16, v \in { 1, 16, 171, 255 } }

\* what get_bos_descriptor may return: success or a libusb error
BosResults == { LIBUSB_SUCCESS, -9 }

\* ------------------------------------------------------------------------
\* State

VARIABLES
    argv,           \* sys.argv
    environ,        \* os.environ["LIBUSB_DEBUG"], << >> when unset
    vid, pid,       \* the ids main parsed
    pc,             \* where the program is
    exitCode,       \* the process exit code, meaningful once pc = "exited"
    exc,            \* the exception propagating, "none" if none
    handle,         \* 0: no handle, 1: the open device handle
    ret,            \* what test_device returned, << >> before it returns
    string_index,   \* the three string indices of the device descriptor
    key,            \* position of the string loop, 1..4
    bos,            \* the BOS descriptor held: bNumDeviceCaps, dev_capability
    bos_ok,         \* get_bos_descriptor returned LIBUSB_SUCCESS
    i,              \* the walker's loop index
    walked,         \* the indices whose entry the walker has looked at, in order
    uuid,           \* the formatted UUID of the entry being walked
    r,              \* the last value a transport call returned to the program
    desc, length, request_type, request, value, index,  \* a reader's locals
    vendor_code,    \* what get_vendor_code_from_os_string_descriptor returned
    via,            \* the path it returned by: "none", "direct", "fallback"
    calls,          \* every call into libusb so far, in order
    out,            \* lines printed to standard output
    errout          \* lines printed to standard error

vars == << argv, environ, vid, pid, pc, exitCode, exc, handle, ret,
           string_index, key, bos, bos_ok, i, walked, uuid,
           desc, length, r, request_type, request, value, index,
           vendor_code, via, calls, out, errout >>

mainVars == << argv, environ, vid, pid, exitCode >>
devVars == << handle, ret, string_index, key >>
bosVars == << bos, bos_ok, i, walked, uuid >>
xferVars == << desc, length, r, request_type, request, value, index >>
osVars == << vendor_code, via >>

Init ==
    /\ argv \in ArgvSet
    /\ environ = << >>
    /\ vid = 0 /\ pid = 0
    /\ pc = "main"
    /\ exitCode = 0
    /\ exc = "none"
    /\ handle = 0
    /\ ret = << >>
    /\ string_index = << 0, 0, 0 >>
    /\ key = 1
    /\ bos = [bNumDeviceCaps |-> 0, dev_capability |-> << >>]
    /\ bos_ok = FALSE
    /\ i = 0
    /\ walked = << >>
    /\ uuid = << >>
    /\ desc = << >> /\ length = 0 /\ r = 0
    /\ request_type = 0 /\ request = 0 /\ value = 0 /\ index = 0
    /\ vendor_code = << >>
    /\ via = "none"
    /\ calls = << >>
    /\ out = << >>
    /\ errout = << >>

\* the locals of a reader that returned are gone
ClearLocals ==
    /\ desc' = << >> /\ length' = 0 /\ r' = 0
    /\ request_type' = 0 /\ request' = 0 /\ value' = 0 /\ index' = 0

Log(c) == calls' = Append(calls, c)
Stdout(lines) == out' = out \o lines

\* ------------------------------------------------------------------------
\* main

\* lines 399-418: argument checks and the parse of VID:PID
main_args ==
    /\ pc = "main"
    /\ LET argc == Len(argv)
           last == argv[argc]
           ids  == Split(last)
       IN IF 2 > argc \/ argc > 3
          THEN /\ Stdout(<< Line("usage", 0) >>)
               /\ exitCode' = 1 /\ pc' = "exited"
               /\ UNCHANGED << environ, vid, pid, exc >>
          ELSE IF 3 = argc /\ argv[2] # << "-", "d" >>
          THEN /\ Stdout(<< Line("usage", 0) >>)
               /\ exitCode' = 1 /\ pc' = "exited"
               /\ UNCHANGED << environ, vid, pid, exc >>
          ELSE IF HasNoColon(last)
          THEN /\ Stdout(<< Line("Invalid VID & PID", 0), Line("usage", 0) >>)
               /\ exitCode' = 1 /\ pc' = "exited"
               /\ environ' = IF 3 = argc THEN << "4" >> ELSE environ
               /\ UNCHANGED << vid, pid, exc >>
          ELSE IF ~ (IsHex(ids[1]) /\ IsHex(ids[2]))
          THEN \* int(..., 16) raises ValueError, nothing catches it
               /\ exc' = "ValueError"
               /\ exitCode' = 1 /\ pc' = "exited"
               /\ environ' = IF 3 = argc THEN << "4" >> ELSE environ
               /\ UNCHANGED << vid, pid, out >>
          ELSE /\ vid' = HexValue(ids[1]) /\ pid' = HexValue(ids[2])
               /\ environ' = IF 3 = argc THEN << "4" >> ELSE environ
               /\ pc' = "init"
               /\ UNCHANGED << exitCode, exc, out >>
    /\ UNCHANGED << argv, devVars, bosVars, xferVars, osVars, calls, errout >>

\* lines 420-425: usb.init, sys.exit(r) on failure
main_init ==
    /\ pc = "init"
    /\ \E res \in StatusResults :
         /\ Log(Call("init", 0, 0, 0, 0, 0))
         /\ Stdout(<< Line("Using libusb", 0) >>)
         /\ IF res < 0
            THEN exitCode' = res % 256 /\ pc' = "exited"
            ELSE exitCode' = exitCode /\ pc' = "test_device"
    /\ UNCHANGED << argv, environ, vid, pid, exc, devVars, bosVars, xferVars,
                    osVars, errout >>

\* lines 430-432 and the interpreter's exit: test_device's result is dropped,
\* usb.exit runs in the finally, an uncaught exception exits with status 1
main_exit ==
    /\ pc = "main_finally"
    /\ Log(Call("exit", 0, 0, 0, 0, 0))
    /\ exitCode' = IF exc # "none" THEN 1 ELSE 0
    /\ pc' = "exited"
    /\ UNCHANGED << argv, environ, vid, pid, exc, devVars, bosVars, xferVars,
                    osVars, out, errout >>

\* ------------------------------------------------------------------------
\* test_device up to the MS OS 1.0 reader

\* the open with its result never looked at: the body runs without a handle
open_device_unchecked ==
    /\ pc = "test_device"
    /\ Log(Call("open_device_with_vid_pid", 0, 0, vid, pid, 0))
    /\ handle' \in { 0, 1 }
    /\ pc' = "topology"
    /\ UNCHANGED << mainVars, exc, ret, string_index, key, bosVars, xferVars, osVars,
                    out, errout >>

\* lines 305-308: open the device; no handle, report and return -1
open_device ==
    /\ pc = "test_device"
    /\ Log(Call("open_device_with_vid_pid", 0, 0, vid, pid, 0))
    /\ \E h \in { 0, 1 } :
         /\ handle' = h
         /\ IF h = 0
            THEN /\ errout' = Append(errout, Line("  Failed.", 0))
                 /\ ret' = << -1 >>
                 /\ pc' = "main_finally"
            ELSE /\ errout' = errout
                 /\ ret' = ret
                 /\ pc' = "topology"
    /\ UNCHANGED << mainVars, exc, string_index, key, bosVars, xferVars, osVars, out >>

\* lines 311-326: bus, port path and speed; an ordinal outside 0..4 prints Unknown
topology ==
    /\ pc = "topology"
    /\ \E t \in TopologySet :
         LET ports == t[1]
             speed == t[2]
         IN /\ r' = IF speed < 0 \/ speed > 4 THEN 0 ELSE speed
            /\ Stdout((IF ports > 0
                       THEN << Line("Device properties:", 0), Line("bus number", 0),
                               Line("port path", ports) >>
                       ELSE << >>)
                      \o << Line("speed", r') >>)
    /\ pc' = "device_descriptor"
    /\ UNCHANGED << mainVars, exc, devVars, bosVars, desc, length, request_type,
                    request, value, index, osVars, calls, errout >>

\* err_exit, lines 15-17: the transport's message on standard error, then -1
err_exit(errcode) ==
    /\ errout' = Append(errout, Line("strerror", errcode))
    /\ ret' = << -1 >>

\* the device descriptor read with its result never looked at
get_device_descriptor_unchecked ==
    /\ pc = "device_descriptor"
    /\ Log(Call("get_device_descriptor", 0, 0, 0, 0, 0))
    /\ r' \in StatusResults
    /\ string_index' \in StringIndexSets
    /\ key' = 1
    /\ Stdout(<< Line("Reading device descriptor:", 0), Line("length", 0),
                 Line("device class", 0), Line("VID:PID", 0),
                 Line("bcdDevice", 0), Line("Reading string descriptors:", 0) >>)
    /\ pc' = "strings"
    /\ UNCHANGED << mainVars, exc, handle, ret, bosVars, desc, length, request_type,
                    request, value, index, osVars, errout >>

\* lines 328-344: the device descriptor; a negative result ends test_device
get_device_descriptor ==
    /\ pc = "device_descriptor"
    /\ Log(Call("get_device_descriptor", 0, 0, 0, 0, 0))
    /\ r' \in StatusResults
    /\ LET res == r' IN
         IF res < 0
         THEN /\ err_exit(res)
              /\ Stdout(<< Line("Reading device descriptor:", 0) >>)
              /\ pc' = "finally"
              /\ UNCHANGED << string_index, key >>
         ELSE /\ string_index' \in StringIndexSets
              /\ key' = 1
              /\ Stdout(<< Line("Reading device descriptor:", 0), Line("length", 0),
                           Line("device class", 0), Line("VID:PID", 0),
                           Line("bcdDevice", 0), Line("Reading string descriptors:", 0) >>)
              /\ pc' = "strings"
              /\ UNCHANGED << errout, ret >>
    /\ UNCHANGED << mainVars, exc, handle, bosVars, desc, length, request_type,
                    request, value, index, osVars >>

\* lines 346-352: one turn of the loop over Manufacturer, Product, Serial Number
read_string_descriptor ==
    /\ pc = "strings" /\ key <= 3
    /\ IF string_index[key] = 0
       THEN UNCHANGED << calls, out, r >>
       ELSE /\ Log(Call("get_string_descriptor_ascii", 0, 0, string_index[key], 0, 128))
            /\ r' \in StringResults
            /\ Stdout(IF r' > 0 THEN << Line("string", key) >> ELSE << >>)
    /\ key' = key + 1
    /\ UNCHANGED << mainVars, pc, exc, handle, ret, string_index, bosVars, desc,
                    length, request_type, request, value, index, osVars, errout >>

\* the close placed after the body instead of in a finally: an early return
\* or an exception leaves without it
close_after_body ==
    /\ pc = "finally"
    /\ IF exc = "none" /\ ret = << >>
       THEN Log(Call("close", 0, 0, 0, 0, 0))
       ELSE calls' = calls
    /\ ret' = IF exc = "none" /\ ret = << >> THEN << 0 >> ELSE ret
    /\ pc' = "main_finally"
    /\ UNCHANGED << mainVars, exc, handle, string_index, key, bosVars, xferVars,
                    osVars, out, errout >>

\* lines 392-395: the finally closes the handle; the fall-through returns 0
finally_close ==
    /\ pc = "finally"
    /\ Log(Call("close", 0, 0, 0, 0, 0))
    /\ ret' = IF exc = "none" /\ ret = << >> THEN << 0 >> ELSE ret
    /\ pc' = "main_finally"
    /\ UNCHANGED << mainVars, exc, handle, string_index, key, bosVars, xferVars,
                    osVars, out, errout >>

\* ------------------------------------------------------------------------
\* get_vendor_code_from_os_string_descriptor

\* lines 165-167, 119-134: the 4-byte header request of the OS string descriptor
os_header_transfer ==
    /\ pc = "strings" /\ key > 3
    /\ Stdout(<< Line("Reading MS OS 1.0 Descriptors", 0),
                 Line("Reading OS String Descriptor", 0) >>)
    /\ length' = 4
    /\ request_type' = LIBUSB_ENDPOINT_IN
    /\ request' = 6
    /\ value' = BitOr(ShiftLeft(3, 8), 238)
    /\ index' = 0
    /\ Log(Call("control_transfer", request_type', request', value', index', length'))
    /\ r' \in RetVals(length')
    /\ desc' \in IF r' = length' THEN OsHeaders ELSE { ZeroBuf(length') }
    /\ pc' = "os_hdr_ret"
    /\ UNCHANGED << mainVars, exc, devVars, bosVars, osVars, errout >>

\* lines 135-147: the header came whole; request desc[0] bytes, same parameters
os_full_transfer ==
    /\ pc = "os_hdr_ret" /\ ~ Mismatch(r, length)
    /\ length' = At(desc, 0)
    /\ Log(Call("control_transfer", request_type, request, value, index, length'))
    /\ r' \in RetVals(length')
    /\ desc' \in IF r' = length'
                 THEN { OsDescriptor(length', vc) : vc \in VendorCodes }
                 ELSE { ZeroBuf(length') }
    /\ pc' = "os_full_ret"
    /\ UNCHANGED << mainVars, exc, devVars, bosVars, osVars, request_type, request,
                    value, index, out, errout >>

\* lines 148-150: dump and return desc[0x10]; a ctypes array shorter than 17
\* bytes raises IndexError there, which leaves test_device through its finally
os_direct_return ==
    /\ pc = "os_full_ret" /\ ~ Mismatch(r, length)
    /\ Stdout(<< Line("dump_hex", r) >>)
    /\ IF MS_OS_DESC_VENDOR_CODE_OFFSET < Len(desc)
       THEN /\ vendor_code' = << At(desc, MS_OS_DESC_VENDOR_CODE_OFFSET) >>
            /\ via' = "direct"
            /\ pc' = "ms10_vc"
            /\ exc' = exc
       ELSE /\ exc' = "IndexError"
            /\ pc' = "finally"
            /\ UNCHANGED << vendor_code, via >>
    /\ ClearLocals
    /\ UNCHANGED << mainVars, devVars, bosVars, calls, errout >>

\* lines 152-156: either direct request came short; read string 0xEE, 18 bytes.
\* Whatever count the read reports, the buffer may hold the device's bytes
os_fallback_transfer ==
    /\ pc \in { "os_hdr_ret", "os_full_ret" } /\ Mismatch(r, length)
    /\ Log(Call("get_string_descriptor", 0, 0, MS_OS_DESC_STRING_INDEX, 0,
                MS_OS_DESC_STRING_LENGTH))
    /\ r' \in RetVals(MS_OS_DESC_STRING_LENGTH)
    /\ desc' \in IF r' > 0
                 THEN FallbackDescriptors
                 ELSE { ZeroBuf(MS_OS_DESC_STRING_LENGTH) }
    /\ pc' = "os_fb_ret"
    /\ UNCHANGED << mainVars, exc, devVars, bosVars, osVars, length, request_type,
                    request, value, index, out, errout >>

\* the fallback accepting the buffer whatever count the read returned
os_fallback_return_any_length ==
    /\ pc = "os_fb_ret"
    /\ IF memcmp(ms_os_desc_string, desc, SizeofMsOsDescString) = 0
       THEN /\ Stdout(<< Line("dump_hex", r) >>)
            /\ vendor_code' = << At(desc, MS_OS_DESC_VENDOR_CODE_OFFSET) >>
            /\ via' = "fallback"
       ELSE /\ out' = out
            /\ vendor_code' = << >>
            /\ via' = "none"
    /\ pc' = "ms10_vc"
    /\ ClearLocals
    /\ UNCHANGED << mainVars, exc, devVars, bosVars, calls, errout >>

\* lines 158-160: 18 bytes whose first sizeof(ms_os_desc_string) match the
\* signature give desc[0x10]; anything else falls off the end, returning None
os_fallback_return ==
    /\ pc = "os_fb_ret"
    /\ IF ~ Mismatch(r, MS_OS_DESC_STRING_LENGTH)
            /\ memcmp(ms_os_desc_string, desc, SizeofMsOsDescString) = 0
       THEN /\ Stdout(<< Line("dump_hex", r) >>)
            /\ vendor_code' = << At(desc, MS_OS_DESC_VENDOR_CODE_OFFSET) >>
            /\ via' = "fallback"
       ELSE /\ out' = out
            /\ vendor_code' = << >>
            /\ via' = "none"
    /\ pc' = "ms10_vc"
    /\ ClearLocals
    /\ UNCHANGED << mainVars, exc, devVars, bosVars, calls, errout >>

\* ------------------------------------------------------------------------
\* read_ms_os_10_descriptors

\* lines 168-170: no vendor code (None or 0): report and return
ms10_not_found ==
    /\ pc = "ms10_vc" /\ ~ Truthy(vendor_code)
    /\ Stdout(<< Line("OS String Descriptor is not found", 0) >>)
    /\ vendor_code' = << >>
    /\ pc' = "bos"
    /\ UNCHANGED << mainVars, exc, devVars, bosVars, xferVars, via, calls, errout >>

\* lines 172-187: the 8-byte header of the Extended Compat ID descriptor
ext_header_transfer ==
    /\ pc = "ms10_vc" /\ Truthy(vendor_code)
    /\ Stdout(<< Line("Reading Extended Compat ID OS Feature Descriptor", 0) >>)
    /\ request_type' = BitOr(BitOr(LIBUSB_ENDPOINT_IN, LIBUSB_REQUEST_TYPE_VENDOR),
                             LIBUSB_RECIPIENT_DEVICE)
    /\ request' = vendor_code[1]
    /\ value' = 0
    /\ index' = 4
    /\ length' = 8
    /\ Log(Call("control_transfer", request_type', request', value', index', length'))
    /\ r' \in RetVals(length')
    /\ desc' \in IF r' = length' THEN ExtCompatHeaders ELSE { ZeroBuf(length') }
    /\ pc' = "ext_hdr_ret"
    /\ UNCHANGED << mainVars, exc, devVars, bosVars, osVars, errout >>

\* the short header answered by asking for the header again
ext_header_retry ==
    /\ pc = "ext_hdr_ret" /\ Mismatch(r, length)
    /\ Stdout(<< Line("Extended Compat ID OS Feature Descriptor is not found", 0) >>)
    /\ pc' = "ms10_vc"
    /\ ClearLocals
    /\ UNCHANGED << mainVars, exc, devVars, bosVars, osVars, calls, errout >>

\* lines 188-190: the header came short: not found, return
ext_header_fail ==
    /\ pc = "ext_hdr_ret" /\ Mismatch(r, length)
    /\ Stdout(<< Line("Extended Compat ID OS Feature Descriptor is not found", 0) >>)
    /\ vendor_code' = << >>
    /\ pc' = "bos"
    /\ ClearLocals
    /\ UNCHANGED << mainVars, exc, devVars, bosVars, via, calls, errout >>

\* lines 192-203: request the 32-bit length at offset 0, same parameters
ext_full_transfer ==
    /\ pc = "ext_hdr_ret" /\ ~ Mismatch(r, length)
    /\ length' = ReadU32(desc, 0)
    /\ Log(Call("control_transfer", request_type, request, value, index, length'))
    /\ r' \in RetVals(length')
    /\ desc' = ZeroBuf(length')
    /\ pc' = "ext_full_ret"
    /\ UNCHANGED << mainVars, exc, devVars, bosVars, osVars, request_type, request,
                    value, index, out, errout >>

\* lines 204-208: not found on a mismatch, else the dump; return
ext_full_return ==
    /\ pc = "ext_full_ret"
    /\ Stdout(IF Mismatch(r, length)
              THEN << Line("Extended Compat ID OS Feature Descriptor is not found", 0) >>
              ELSE << Line("dump_hex", r) >>)
    /\ vendor_code' = << >>
    /\ pc' = "bos"
    /\ ClearLocals
    /\ UNCHANGED << mainVars, exc, devVars, bosVars, via, calls, errout >>

\* ------------------------------------------------------------------------
\* The BOS walk of test_device

\* the fields the walker reads of an entry, at their ctypes offsets
bDevCapabilityType(cap) == At(cap, 2)
PlatformCapabilityUUID(cap) == SubSeq(cap, 5, 20)
bVendorCodeAtWebUsbOffset(cap) == At(cap, 22)
MSOS20_bVendorCode(cap) == At(cap, 26)
WebUSB_bVendorCode(cap) == At(cap, 22)

\* lines 357-362, 389-390: fetch the BOS descriptor; on failure say so and go on
get_bos_descriptor ==
    /\ pc = "bos"
    /\ Log(Call("get_bos_descriptor", 0, 0, 0, 0, 0))
    /\ \E res \in BosResults :
         IF res = LIBUSB_SUCCESS
         THEN /\ bos' \in { b \in BosSet : b.bNumDeviceCaps = Len(b.dev_capability) }
              /\ bos_ok' = TRUE
              /\ i' = 0
              /\ walked' = << >>
              /\ Stdout(<< Line("Reading BOS descriptor: ", 0),
                           Line("bNumDeviceCaps", bos'.bNumDeviceCaps) >>)
              /\ pc' = "bos_loop"
         ELSE /\ Stdout(<< Line("Reading BOS descriptor: ", 0), Line("no descriptor", 0) >>)
              /\ pc' = "finally"
              /\ UNCHANGED << bos, bos_ok, i, walked >>
    /\ UNCHANGED << mainVars, exc, devVars, uuid, xferVars, osVars, errout >>

\* the walk stepping over the entry after each one that is not a platform
\* capability
walk_capability_skips ==
    /\ pc = "bos_loop" /\ i < bos.bNumDeviceCaps
    /\ walked' = Append(walked, i)
    /\ LET cap == bos.dev_capability[i + 1]
           id  == uuid_to_string(PlatformCapabilityUUID(cap))
       IN IF bDevCapabilityType(cap) = PLATFORM_CAPABILITY
          THEN /\ uuid' = id
               /\ IF id = MS_OS_20_PLATFORM_CAPABILITY_UUID
                  THEN /\ Stdout(<< Line("MS OS 2.0 Platform Capability Descriptor", 0),
                                    Line("UUID", 0),
                                    Line("VendorCode", MSOS20_bVendorCode(cap)) >>)
                       /\ vendor_code' = << MSOS20_bVendorCode(cap) >>
                       /\ pc' = "ms20"
                       /\ i' = i
                  ELSE IF id = WEBUSB_PLATFORM_CAPABILITY_UUID
                  THEN /\ Stdout(<< Line("WebUSB Platform Capability UUID", 0),
                                    Line("UUID", 0),
                                    Line("VendorCode", WebUSB_bVendorCode(cap)) >>)
                       /\ i' = i + 1
                       /\ UNCHANGED << vendor_code, pc >>
                  ELSE /\ Stdout(<< Line("UUID", 0) >>)
                       /\ i' = i + 1
                       /\ UNCHANGED << vendor_code, pc >>
          ELSE /\ i' = i + 2
               /\ UNCHANGED << uuid, vendor_code, pc, out >>
    /\ UNCHANGED << mainVars, exc, devVars, bos, bos_ok, xferVars, via, calls, errout >>

\* lines 363-385: one entry of the walk. Only type 0x05 is looked at (the call
\* of print_device_cap is commented out); its formatted UUID picks the branch
walk_capability ==
    /\ pc = "bos_loop" /\ i < bos.bNumDeviceCaps
    /\ walked' = Append(walked, i)
    /\ LET cap == bos.dev_capability[i + 1]
           id  == uuid_to_string(PlatformCapabilityUUID(cap))
       IN IF bDevCapabilityType(cap) = PLATFORM_CAPABILITY
          THEN /\ uuid' = id
               /\ IF id = MS_OS_20_PLATFORM_CAPABILITY_UUID
                  THEN /\ Stdout(<< Line("MS OS 2.0 Platform Capability Descriptor", 0),
                                    Line("UUID", 0),
                                    Line("VendorCode", MSOS20_bVendorCode(cap)) >>)
                       /\ vendor_code' = << MSOS20_bVendorCode(cap) >>
                       /\ pc' = "ms20"
                       /\ i' = i
                  ELSE IF id = WEBUSB_PLATFORM_CAPABILITY_UUID
                  THEN /\ Stdout(<< Line("WebUSB Platform Capability UUID", 0),
                                    Line("UUID", 0),
                                    Line("VendorCode", WebUSB_bVendorCode(cap)) >>)
                       /\ i' = i + 1
                       /\ UNCHANGED << vendor_code, pc >>
                  ELSE /\ Stdout(<< Line("UUID", 0) >>)
                       /\ i' = i + 1
                       /\ UNCHANGED << vendor_code, pc >>
          ELSE /\ i' = i + 1
               /\ UNCHANGED << uuid, vendor_code, pc, out >>
    /\ UNCHANGED << mainVars, exc, devVars, bos, bos_ok, xferVars, via, calls, errout >>

\* the release placed inside the loop: the walk goes on over freed memory
free_bos_descriptor_in_loop ==
    /\ pc = "bos_loop"
    /\ Log(Call("free_bos_descriptor", 0, 0, 0, 0, 0))
    /\ pc' = IF i >= bos.bNumDeviceCaps THEN "finally" ELSE "bos_loop"
    /\ UNCHANGED << mainVars, exc, devVars, bosVars, xferVars, osVars, out, errout >>

\* line 388: the loop is over; release the BOS descriptor
free_bos_descriptor ==
    /\ pc = "bos_loop" /\ i >= bos.bNumDeviceCaps
    /\ Log(Call("free_bos_descriptor", 0, 0, 0, 0, 0))
    /\ pc' = "finally"
    /\ UNCHANGED << mainVars, exc, devVars, bosVars, xferVars, osVars, out, errout >>

\* ------------------------------------------------------------------------
\* read_ms_os_20_descriptors

\* lines 214-231: the 10-byte header of the MS OS 2.0 descriptor set
ms20_header_transfer ==
    /\ pc = "ms20"
    /\ Stdout(<< Line("Reading MS OS 2.0 descriptors", 0),
                 Line("Reading MS OS 2.0 descriptor set header", 0) >>)
    /\ request_type' = BitOr(BitOr(LIBUSB_ENDPOINT_IN, LIBUSB_REQUEST_TYPE_VENDOR),
                             LIBUSB_RECIPIENT_DEVICE)
    /\ request' = vendor_code[1]
    /\ value' = 0
    /\ index' = 7
    /\ length' = 10
    /\ Log(Call("control_transfer", request_type', request', value', index', length'))
    /\ r' \in RetVals(length')
    /\ desc' \in IF r' = length' THEN MsOs20Headers ELSE { ZeroBuf(length') }
    /\ pc' = "ms20_hdr_ret"
    /\ UNCHANGED << mainVars, exc, devVars, bosVars, osVars, errout >>

\* lines 232-234: the header came short: not found, back to the walk
ms20_header_fail ==
    /\ pc = "ms20_hdr_ret" /\ Mismatch(r, length)
    /\ Stdout(<< Line("Not found", 0) >>)
    /\ vendor_code' = << >>
    /\ i' = i + 1
    /\ pc' = "bos_loop"
    /\ ClearLocals
    /\ UNCHANGED << mainVars, exc, devVars, bos, bos_ok, walked, uuid, via, calls, errout >>

\* lines 236-249: dump the header, request the 16-bit length at offset 8
ms20_full_transfer ==
    /\ pc = "ms20_hdr_ret" /\ ~ Mismatch(r, length)
    /\ Stdout(<< Line("dump_hex", r) >>)
    /\ length' = ReadU16(desc, 4)
    /\ Log(Call("control_transfer", request_type, request, value, index, length'))
    /\ r' \in RetVals(length')
    /\ desc' = ZeroBuf(length')
    /\ pc' = "ms20_full_ret"
    /\ UNCHANGED << mainVars, exc, devVars, bosVars, osVars, request_type, request,
                    value, index, errout >>

\* lines 250-254: not found on a mismatch, else the dump; back to the walk
ms20_full_return ==
    /\ pc = "ms20_full_ret"
    /\ Stdout(IF Mismatch(r, length) THEN << Line("Not found", 0) >> ELSE << Line("dump_hex", r) >>)
    /\ vendor_code' = << >>
    /\ i' = i + 1
    /\ pc' = "bos_loop"
    /\ ClearLocals
    /\ UNCHANGED << mainVars, exc, devVars, bos, bos_ok, walked, uuid, via, calls, errout >>

\* ------------------------------------------------------------------------
\* The program

Next ==
    \/ main_args
    \/ main_init
    \/ open_device
    \/ topology
    \/ get_device_descriptor
    \/ read_string_descriptor
    \/ os_header_transfer
    \/ os_full_transfer
    \/ os_direct_return
    \/ os_fallback_transfer
    \/ os_fallback_return
    \/ ms10_not_found
    \/ ext_header_transfer
    \/ ext_header_fail
    \/ ext_full_transfer
    \/ ext_full_return
    \/ get_bos_descriptor
    \/ walk_capability
    \/ ms20_header_transfer
    \/ ms20_header_fail
    \/ ms20_full_transfer
    \/ ms20_full_return
    \/ free_bos_descriptor
    \/ finally_close
    \/ main_exit

Spec == Init /\ [][Next]_vars

\* ------------------------------------------------------------------------
\* uuid_to_string on its own: a buffer is drawn, the function is applied

InitUuid ==
    /\ argv = << << "w" >>, << "1", "A", ":", "2" >> >>
    /\ environ = << >>
    /\ vid = 0 /\ pid = 0
    /\ pc = "uuid_to_string"
    /\ exitCode = 0
    /\ exc = "none"
    /\ handle = 0
    /\ ret = << >>
    /\ string_index = << 0, 0, 0 >>
    /\ key = 1
    /\ bos = [bNumDeviceCaps |-> 0, dev_capability |-> << >>]
    /\ bos_ok = FALSE
    /\ i = 0
    /\ walked = << >>
    /\ uuid = << >>
    /\ desc \in UuidInputs
    /\ length = 0 /\ r = 0
    /\ request_type = 0 /\ request = 0 /\ value = 0 /\ index = 0
    /\ vendor_code = << >>
    /\ via = "none"
    /\ calls = << >>
    /\ out = << >>
    /\ errout = << >>

\* lines 107-111 applied to the buffer
format_uuid ==
    /\ pc = "uuid_to_string"
    /\ uuid' = uuid_to_string(desc)
    /\ pc' = "uuid_formatted"
    /\ UNCHANGED << mainVars, exc, devVars, bos, bos_ok, i, walked, xferVars, osVars,
                    calls, out, errout >>

SpecUuid == InitUuid /\ [][format_uuid]_vars

\* ------------------------------------------------------------------------
\* Properties

LastCall(log) == log[Len(log)]

\* the step issued exactly one more call, c
Issued(c) == calls' = Append(calls, c)

\* the step issued the second request of a two-phase read: the call before it
\* again, with n as the requested length
ReRequested(n) ==
    /\ Len(calls) > 0
    /\ LastCall(calls).fn = "control_transfer"
    /\ Issued([LastCall(calls) EXCEPT !.wLength = n])

\* C1: whenever the second transfer of a two-phase read is issued, it asks for
\* the length the first response declares (byte 0 of the OS string header; the
\* little-endian 32 bits at offset 0 of the Extended Compat ID header; the
\* little-endian 16 bits at offset 8 of the MS OS 2.0 header), with request type,
\* bRequest, wValue and wIndex of the first transfer.
C1_SecondPhaseFollowsHeader ==
    [][ /\ (pc = "os_hdr_ret" /\ pc' = "os_full_ret") => ReRequested(desc[1])
        /\ (pc = "ext_hdr_ret" /\ pc' = "ext_full_ret") =>
              ReRequested(desc[1] + 256 * desc[2] + 65536 * desc[3] + 16777216 * desc[4])
        /\ (pc = "ms20_hdr_ret" /\ pc' = "ms20_full_ret") =>
              ReRequested(desc[9] + 256 * desc[10])
      ]_vars

\* C1 witness: all three second requests were issued in one run, the last one
\* for the 266 bytes an MS OS 2.0 header declared in both of its length bytes
C1_Witness ==
    /\ pc = "ms20_full_ret"
    /\ LastCall(calls).wIndex = 7 /\ LastCall(calls).wLength = 266
    /\ \E k \in 1..Len(calls) : calls[k].wIndex = 4 /\ calls[k].wLength = 272
    /\ \E k \in 1..Len(calls) : calls[k].wValue = 1006 /\ calls[k].wLength = 18

\* ----

OsNotFound == Line("OS String Descriptor is not found", 0)
ExtNotFound == Line("Extended Compat ID OS Feature Descriptor is not found", 0)
Ms20NotFound == Line("Not found", 0)

FallbackCall == Call("get_string_descriptor", 0, 0, 238, 0, 18)

\* a mismatch in the Extended Compat ID or MS OS 2.0 reader: the reader prints
\* its not-found line and returns, with no further call and no exception
VendorReadersStopOnMismatch ==
    /\ (pc \in { "ext_hdr_ret", "ext_full_ret" } /\ r # length) =>
          /\ out' = Append(out, ExtNotFound)
          /\ calls' = calls /\ exc' = "none" /\ pc' = "bos"
    /\ (pc \in { "ms20_hdr_ret", "ms20_full_ret" } /\ r # length) =>
          /\ out' = Append(out, Ms20NotFound)
          /\ calls' = calls /\ exc' = "none" /\ pc' = "bos_loop" /\ i' = i + 1

\* a mismatch on either direct request of the OS string reader: the next call
\* is the fallback string read, not a re-request, and nothing is raised
OsDirectMismatchFallsBack ==
    (pc \in { "os_hdr_ret", "os_full_ret" } /\ r # length) =>
        Issued(FallbackCall) /\ exc' = "none" /\ pc' = "os_fb_ret"

\* a mismatch on the fallback read: None comes back, and the caller reports it
OsFallbackMismatchReported ==
    /\ (pc = "os_fb_ret" /\ r # 18) =>
          /\ vendor_code' = << >> /\ calls' = calls /\ exc' = "none"
          /\ pc' = "ms10_vc"
    /\ (pc = "ms10_vc" /\ vendor_code = << >>) =>
          /\ out' = Append(out, OsNotFound)
          /\ calls' = calls /\ exc' = "none" /\ pc' = "bos"

\* the OS string reader ran its fallback, so one of its direct requests mismatched
OsDirectMismatched ==
    \E k \in 1..Len(calls) : calls[k] = FallbackCall

IssuedExtCompat ==
    /\ Len(calls') = Len(calls) + 1
    /\ LastCall(calls').fn = "control_transfer"
    /\ LastCall(calls').wIndex = 4

\* C3: the Extended Compat ID request is issued only after the OS string reader
\* returned a vendor code by its direct path (both requests returned the length
\* asked for) or its fallback path (18 bytes that match the signature); when it
\* returns none, "OS String Descriptor is not found" is printed and the reader
\* returns without a vendor request.
C3_VendorCodeGatesExtCompat ==
    [][ /\ IssuedExtCompat =>
              \/ pc = "ms10_vc" /\ vendor_code # << >> /\ via' \in { "direct", "fallback" }
              \/ pc = "ext_hdr_ret"
        /\ (pc' = "ms10_vc" /\ vendor_code' # << >>) =>
              \/ /\ pc = "os_full_ret" /\ r = length /\ via' = "direct"
                 /\ LastCall(calls).wLength = length
                 /\ calls[Len(calls) - 1].wLength = 4
              \/ /\ pc = "os_fb_ret" /\ r = 18 /\ via' = "fallback"
                 /\ \A k \in 1..16 : desc[k] = ms_os_desc_string[k]
        /\ (pc' = "ms10_vc" /\ vendor_code' = << >>) => via' = "none"
        /\ (pc = "ms10_vc" /\ via = "none") =>
              /\ out' = Append(out, OsNotFound)
              /\ calls' = calls /\ pc' = "bos"
        /\ (pc' \in { "ms10_vc", "os_hdr_ret", "os_full_ret", "os_fb_ret" }) =>
              \A k \in 1..Len(calls') : calls'[k].wIndex # 4
      ]_vars

\* C3 witness: the fallback path gave the vendor code and the Extended Compat
\* ID header request went out with it
C3_Witness ==
    /\ pc = "ext_hdr_ret"
    /\ via = "fallback"
    /\ LastCall(calls).wIndex = 4 /\ LastCall(calls).bRequest = 32

\* ----

\* C4 as stated: when both direct requests return the length asked for, whatever
\* length byte 0 declared, the reader returns byte 0x10 of the second buffer;
\* and the fallback path, when it succeeds, returns byte 0x10 of its buffer.
C4_ReturnsByteAtVendorOffset ==
    [][ /\ (pc = "os_full_ret" /\ r = length) =>
              /\ Len(desc) > 16
              /\ vendor_code' = << desc[17] >>
              /\ exc' = "none" /\ pc' = "ms10_vc"
        /\ (pc = "os_fb_ret" /\ r = 18 /\ \A k \in 1..16 : desc[k] = ms_os_desc_string[k]) =>
              /\ vendor_code' = << desc[17] >>
              /\ exc' = "none" /\ pc' = "ms10_vc"
      ]_vars

\* ----

CountCalls(fn) == Cardinality({ k \in 1..Len(calls) : calls[k].fn = fn })

\* test_device was left after the device had been opened
LeftTestDeviceOpened == handle = 1 /\ pc \in { "main_finally", "exited" }

\* C5: on every way out of test_device after the open (normal end, device
\* descriptor failure, BOS fetch failure, an exception) the handle has been
\* closed exactly once; the BOS descriptor has been freed exactly once if
\* get_bos_descriptor returned success and never otherwise.
C5_ReleasedExactlyOnce ==
    /\ CountCalls("close") <= 1
    /\ CountCalls("free_bos_descriptor") <= (IF bos_ok THEN 1 ELSE 0)
    /\ CountCalls("close") = 1 => handle = 1
    /\ LeftTestDeviceOpened =>
          /\ CountCalls("close") = 1
          /\ CountCalls("free_bos_descriptor") = (IF bos_ok THEN 1 ELSE 0)
          /\ bos_ok <=> (\E k \in 1..Len(out) : out[k].text = "bNumDeviceCaps")

\* C5 witness: test_device was left by the IndexError, the handle closed once
C5_Witness ==
    /\ LeftTestDeviceOpened
    /\ exc = "IndexError"
    /\ CountCalls("close") = 1
    /\ CountCalls("get_bos_descriptor") = 0

\* ----

\* C6 as stated: every entry walked prints something chosen by its type, and a
\* type other than 2, 3, 4 and 5 prints the unknown-capability line with the
\* type byte; no entry raises.
C6_EveryEntryPrints ==
    [][ (pc = "bos_loop" /\ i < bos.bNumDeviceCaps) =>
          LET type == bos.dev_capability[i + 1][3]
          IN /\ Len(out') > Len(out)
             /\ type \notin { 2, 3, 4, 5 } =>
                   out'[Len(out) + 1] = Line("Unknown BOS device capability", type)
             /\ exc' = "none"
      ]_vars

\* ----

\* C7: the walk enters the MS OS 2.0 reader for an entry exactly when the entry
\* has type 0x05 and carries the MS OS 2.0 UUID, and then with the byte at
\* offset 26 of that entry (its bVendorCode) as the vendor code, which becomes
\* bRequest of the reader's header request; an entry with the WebUSB UUID prints
\* the WebUSB lines and goes on to the next entry without any call.
C7_Ms20ReaderOnlyForItsUuid ==
    [][ /\ (pc = "bos_loop" /\ i < bos.bNumDeviceCaps) =>
              LET cap == bos.dev_capability[i + 1]
                  isPlatform == cap[3] = 5
                  id == IF isPlatform THEN SubSeq(cap, 5, 20) ELSE << >>
              IN /\ pc' = "ms20" <=> (isPlatform /\ id = MsOs20UuidBytes)
                 /\ pc' = "ms20" => vendor_code' = << cap[27] >> /\ i' = i
                 /\ (isPlatform /\ id = WebUsbUuidBytes) =>
                       /\ out' = out \o << Line("WebUSB Platform Capability UUID", 0),
                                           Line("UUID", 0),
                                           Line("VendorCode", cap[23]) >>
                       /\ uuid' = WEBUSB_PLATFORM_CAPABILITY_UUID
                       /\ calls' = calls /\ pc' = "bos_loop" /\ i' = i + 1
        /\ pc' = "ms20" => pc = "bos_loop"
        /\ pc = "ms20" =>
              /\ pc' = "ms20_hdr_ret"
              /\ Issued(Call("control_transfer", 192, bos.dev_capability[i + 1][27],
                             0, 7, 10))
        /\ (Len(calls') > Len(calls) /\ LastCall(calls').wIndex = 7) =>
              pc \in { "ms20", "ms20_hdr_ret" }
      ]_vars

\* C7 witness: the MS OS 2.0 reader is entered with the entry's 0x21 after the
\* OS string descriptor had given 0x20
C7_Witness ==
    /\ pc = "ms20"
    /\ vendor_code = << 33 >>
    /\ via \in { "direct", "fallback" }
    /\ \E k \in 1..Len(calls) : calls[k].wIndex = 4 /\ calls[k].bRequest = 32

\* ----

\* no string descriptor read, no MS OS 1.0 transfer, no BOS fetch in the log
NoReadsAfterDescriptor(log) ==
    \A k \in 1..Len(log) :
        log[k].fn \notin { "get_string_descriptor_ascii", "control_transfer",
                           "get_string_descriptor", "get_bos_descriptor" }

\* C8: a negative result of the device descriptor read is reported on standard
\* error and makes test_device return -1, and the run issues no string
\* descriptor read, no MS OS 1.0 transfer and no BOS fetch.
C8_DescriptorFailureEndsInspection ==
    [][ /\ (pc = "device_descriptor" /\ r' < 0) =>
              /\ errout' = Append(errout, Line("strerror", r'))
              /\ ret' = << -1 >>
              /\ pc' = "finally"
              /\ NoReadsAfterDescriptor(calls')
        /\ (handle = 1 /\ ret = << -1 >>) => NoReadsAfterDescriptor(calls')
      ]_vars

\* C8 witness: the run ended after a failed device descriptor read
C8_Witness ==
    /\ pc = "exited"
    /\ handle = 1 /\ ret = << -1 >> /\ r < 0
    /\ CountCalls("get_device_descriptor") = 1

\* ----

\* C9 as stated: the exit code is 0 whenever the device was opened, and nonzero
\* whenever it was not (arguments rejected, or no device opened).
C9_ExitCodeTellsOpen ==
    pc = "exited" => /\ handle = 1 => exitCode = 0
                     /\ handle = 0 => exitCode # 0

\* ----

BracedDF60DDD8 ==
    << "{", "D","F","6","0","D","D","D","8", "-", "8","9","4","5", "-",
       "C","7","4","C", "-", "9","C","D","2", "-",
       "6","5","9","D","9","E","6","4","8","A","9","F", "}" >>

Braced38B60834 ==
    << "{", "3","8","B","6","0","8","3","4", "-", "A","9","0","9", "-",
       "A","0","4","7", "-", "8","B","F","D", "-",
       "A","0","7","6","8","8","1","5","B","6","6","5", "}" >>

\* C10 as amended: the buffer D8 DD 60 DF 45 89 4C C7 9C D2 65 9D 9E 64 8A 9F
\* formats to {DF60DDD8-8945-C74C-9CD2-659D9E648A9F} and the buffer
\* 34 08 B6 38 09 A9 47 A0 8B FD A0 76 88 15 B6 65 to
\* {38B60834-A909-A047-8BFD-A0768815B665}; the registered strings come from
\* the buffers DF 60 DD D8 89 45 C7 4C 9C D2 65 9D 9E 64 8A 9F and
\* 38 B6 08 34 A9 09 A0 47 8B FD A0 76 88 15 B6 65.
C10_FormatsRegisteredUuids ==
    pc = "uuid_formatted" =>
        /\ desc = MsOs20DigitsInOrder => uuid = BracedDF60DDD8
        /\ desc = WebUsbDigitsInOrder => uuid = Braced38B60834
        /\ desc = MsOs20UuidBytes => uuid = MS_OS_20_PLATFORM_CAPABILITY_UUID
        /\ desc = WebUsbUuidBytes => uuid = WEBUSB_PLATFORM_CAPABILITY_UUID

\* C10 witness: the buffer D8 DD 60 DF ... has been formatted
C10_Witness ==
    /\ pc = "uuid_formatted"
    /\ desc = << 216, 221, 96, 223, 69, 137, 76, 199,
                 156, 210, 101, 157, 158, 100, 138, 159 >>
    /\ Len(uuid) = 38

\* C10 as stated: the buffers D8 DD 60 DF ... and 34 08 B6 38 ... format to
\* the registered MS OS 2.0 and WebUSB strings.
C10_Original ==
    pc = "uuid_formatted" =>
        /\ desc = MsOs20DigitsInOrder => uuid = MS_OS_20_PLATFORM_CAPABILITY_UUID
        /\ desc = WebUsbDigitsInOrder => uuid = WEBUSB_PLATFORM_CAPABILITY_UUID

\* ----

\* the buffer index printed k-th, k = 1..16
PrintedOrder == << 3, 2, 1, 0, 5, 4, 7, 6, 8, 9, 10, 11, 12, 13, 14, 15 >>

UpperHexDigits == << "0","1","2","3","4","5","6","7","8","9","A","B","C","D","E","F" >>

\* where the k-th printed byte starts in the braced, hyphenated string
PairStart(k) ==
    2 * k + (IF k > 4 THEN 1 ELSE 0) + (IF k > 6 THEN 1 ELSE 0)
          + (IF k > 8 THEN 1 ELSE 0) + (IF k > 10 THEN 1 ELSE 0)

\* C11: for every 16-byte buffer the output is 38 characters: a brace, the
\* bytes at indices 3,2,1,0 - 5,4 - 7,6 - 8,9 - 10..15 each as two uppercase
\* hex digits, hyphens between the five groups, a closing brace; the index
\* order is a permutation of 0..15, so every byte is printed exactly once.
C11_PrintsPermutedBytes ==
    /\ { PrintedOrder[k] : k \in 1..16 } = 0..15
    /\ pc = "uuid_formatted" =>
          /\ Len(uuid) = 38
          /\ uuid[1] = "{" /\ uuid[38] = "}"
          /\ \A h \in { 10, 15, 20, 25 } : uuid[h] = "-"
          /\ \A k \in 1..16 :
                LET b == desc[PrintedOrder[k] + 1]
                IN /\ uuid[PairStart(k)] = UpperHexDigits[(b \div 16) + 1]
                   /\ uuid[PairStart(k) + 1] = UpperHexDigits[(b % 16) + 1]

\* C11 witness: the buffer whose only nonzero byte is 0xAB at index 0 has been
\* formatted, and AB stands fourth in the first group
C11_Witness ==
    /\ pc = "uuid_formatted"
    /\ desc = << 171, 0, 0, 0, 0, 0, 0, 0, 0, 0, 0, 0, 0, 0, 0, 0 >>
    /\ uuid[8] = "A" /\ uuid[9] = "B"

\* ----

\* the first sixteen bytes of the buffer are the signature descriptor's
SignatureMatches(buf) == \A k \in 1..16 : buf[k] = ms_os_desc_string[k]

\* the fallback path returned a vendor code in this step
FallbackReturnsCode == pc = "os_fb_ret" /\ vendor_code' # << >>

\* C12 as amended: the fallback path returns a vendor code exactly when the
\* string descriptor read returned 18 and the first 16 bytes of the buffer
\* (length, type, "MSFT100") equal the signature descriptor; the code returned
\* is byte 0x10; bytes 16 and 17 of the buffer are not compared.
C12_FallbackNeedsSignature ==
    [][ pc = "os_fb_ret" =>
          /\ vendor_code' # << >> <=> (r = 18 /\ SignatureMatches(desc))
          /\ vendor_code' # << >> => vendor_code' = << desc[17] >> /\ via' = "fallback"
      ]_vars

\* C12 witness: the fallback read returned 18 bytes that carry the signature
\* and a last byte that is not the descriptor's zero pad
C12_Witness ==
    /\ pc = "os_fb_ret"
    /\ r = 18 /\ SignatureMatches(desc)
    /\ desc[17] = 32 /\ desc[18] # 0

\* C12 as stated: a vendor code comes back from the fallback path only if the
\* read returned 18 and all 18 bytes are those of the signature descriptor:
\* the signature, the vendor code byte that is returned, and the zero pad.
C12_Original ==
    [][ FallbackReturnsCode =>
          /\ r = 18
          /\ desc = ms_os_desc_string \o << desc[17], 0 >>
      ]_vars

\* ----

HasLine(lines, text) == \E k \in 1..Len(lines) : lines[k].text = text

\* the device descriptor read succeeded: test_device went on to the strings
DescriptorReadSucceeded == HasLine(out, "Reading string descriptors:")

\* C13 as stated: a run whose device descriptor read succeeded has, by the time
\* test_device is left, invoked the MS OS 1.0 reader and attempted the BOS
\* fetch, whatever the string reads and the MS OS 1.0 transfers returned.
C13_LaterStagesAlwaysRun ==
    (DescriptorReadSucceeded /\ pc \in { "main_finally", "exited" }) =>
        /\ HasLine(out, "Reading MS OS 1.0 Descriptors")
        /\ CountCalls("get_bos_descriptor") = 1

\* ----

\* C14: when the open yields no handle, test_device prints "Failed." on
\* standard error and returns -1 at once: the run holds no descriptor read, no
\* control transfer, no BOS fetch and no close, only init, the open and exit.
C14_OpenFailureStopsAll ==
    (handle = 0 /\ CountCalls("open_device_with_vid_pid") > 0) =>
        /\ pc \in { "main_finally", "exited" }
        /\ ret = << -1 >>
        /\ errout = << Line("  Failed.", 0) >>
        /\ \A k \in 1..Len(calls) :
              calls[k].fn \in { "init", "open_device_with_vid_pid", "exit" }
        /\ CountCalls("open_device_with_vid_pid") = 1

\* C14 witness: the run is over, the open had found no device
C14_Witness ==
    /\ pc = "exited"
    /\ handle = 0
    /\ ret = << -1 >>
    /\ LastCall(calls).fn = "exit"
    /\ calls[Len(calls) - 1].fn = "open_device_with_vid_pid"

\* ----

\* C15 as stated: whatever byte 0x00..0xFF the OS string reader returned from
\* offset 0x10, the next step issues the Extended Compat ID header request:
\* vendor IN device request, bRequest that byte, wValue 0, wIndex 4, 8 bytes.
C15_EveryVendorCodeRequests ==
    [][ (pc = "ms10_vc" /\ vendor_code # << >>) =>
          Issued(Call("control_transfer", 192, vendor_code[1], 0, 4, 8)) ]_vars

\* ----

\* the calls of the log that satisfy P
CallsWhere(P(_)) == Cardinality({ k \in 1..Len(calls) : P(calls[k]) })

IsOsStringTransfer(c) == c.fn = "control_transfer" /\ c.bmRequestType = 128
IsFallbackRead(c) == c.fn = "get_string_descriptor"
IsExtCompatTransfer(c) == c.fn = "control_transfer" /\ c.wIndex = 4
IsExtCompatHeader(c) == IsExtCompatTransfer(c) /\ c.wLength = 8
IsMs20Transfer(c) == c.fn = "control_transfer" /\ c.wIndex = 7
IsMs20Header(c) == IsMs20Transfer(c) /\ c.wLength = 10

\* how often the walk has entered the MS OS 2.0 reader: the entries looked at
\* that are platform capabilities with the MS OS 2.0 UUID
Ms20Invocations ==
    Cardinality({ k \in 1..Len(walked) :
                    /\ bos.dev_capability[walked[k] + 1][3] = 5
                    /\ SubSeq(bos.dev_capability[walked[k] + 1], 5, 20) = MsOs20UuidBytes })

\* C16: no step is tried again. In a run (one invocation of the MS OS 1.0
\* reader) the OS string reader issues at most two control transfers, the
\* header and the full request, and at most one fallback read; the Extended
\* Compat ID part at most two transfers, one of them the 8-byte header; each
\* invocation of the MS OS 2.0 reader at most two transfers, one of them the
\* 10-byte header.
C16_NothingRetried ==
    /\ CallsWhere(IsOsStringTransfer) <= 2
    /\ CallsWhere(IsFallbackRead) <= 1
    /\ CallsWhere(IsExtCompatTransfer) <= 2
    /\ CallsWhere(IsExtCompatHeader) <= 1
    /\ CallsWhere(IsMs20Transfer) <= 2 * Ms20Invocations
    /\ CallsWhere(IsMs20Header) <= Ms20Invocations
    /\ CallsWhere(IsOsStringTransfer) + CallsWhere(IsFallbackRead)
         + CallsWhere(IsExtCompatTransfer) + CallsWhere(IsMs20Transfer)
         = CountCalls("control_transfer") + CountCalls("get_string_descriptor")

\* C16 witness: every step of every reader was taken in one run, two of them
\* after a failure: the OS string full request came short, the fallback gave
\* the code, both Extended Compat ID transfers went out, the second one came
\* short, and the single MS OS 2.0 entry got both of its transfers
C16_Witness ==
    /\ pc = "ms20_full_ret"
    /\ CallsWhere(IsOsStringTransfer) = 2
    /\ CallsWhere(IsFallbackRead) = 1
    /\ CallsWhere(IsExtCompatTransfer) = 2
    /\ HasLine(out, "Extended Compat ID OS Feature Descriptor is not found")
    /\ Ms20Invocations = 1
    /\ CallsWhere(IsMs20Transfer) = 2

\* ----

\* the indices 0 .. n-1 in increasing order
Indices(n) == [k \in 1..n |-> k - 1]

\* the walk is over: the BOS descriptor was fetched and has been released
WalkOver == bos_ok /\ CountCalls("free_bos_descriptor") = 1

\* C17: after a successful BOS fetch the walker looks at the entries with
\* indices 0, 1, .. in increasing order, each once, never at an index beyond
\* bNumDeviceCaps - 1, and when the walk is over it has looked at exactly
\* bNumDeviceCaps entries (none when the count is 0).
C17_WalksDeclaredCount ==
    /\ Len(walked) <= bos.bNumDeviceCaps
    /\ walked = Indices(Len(walked))
    /\ WalkOver => Len(walked) = bos.bNumDeviceCaps
    /\ (bos_ok /\ pc \in { "finally", "main_finally", "exited" }) => WalkOver

\* C17 witness: a walk over two entries, the first of them an MS OS 2.0
\* capability whose reader ran, is over
C17_Witness ==
    /\ WalkOver
    /\ bos.bNumDeviceCaps = 2
    /\ walked = << 0, 1 >>
    /\ bos.dev_capability[1][3] = 5
    /\ CallsWhere(IsMs20Transfer) > 0

\* C17 witness for the empty descriptor: a walk over no entry is over
C17_WitnessEmpty ==
    /\ WalkOver
    /\ bos.bNumDeviceCaps = 0
    /\ walked = << >>

\* ----

\* the step ends the direct path of the OS string reader with a vendor code
DirectPathReturnsCode == pc = "os_full_ret" /\ via' = "direct"

\* the step ends the direct path without a vendor code: the header did not
\* lead to the full request, or the full request did not lead to a return
DirectPathGivesNoCode ==
    \/ pc = "os_hdr_ret" /\ pc' # "os_full_ret"
    \/ pc = "os_full_ret" /\ via' # "direct"

\* C18 as stated: the fallback read is issued exactly by the step that ends
\* the direct path without a vendor code, which is the step after a direct
\* request that returned a count different from the one requested; a step
\* that returns the direct path's vendor code issues no call.
C18_FallbackIffDirectFailed ==
    [][ /\ Issued(FallbackCall) <=> DirectPathGivesNoCode
        /\ DirectPathGivesNoCode <=>
              (pc \in { "os_hdr_ret", "os_full_ret" } /\ r # length)
        /\ DirectPathReturnsCode => calls' = calls
        /\ (Len(calls') > Len(calls) /\ LastCall(calls').fn = "get_string_descriptor") =>
              Issued(FallbackCall)
      ]_vars

\* ----

UsesHandle(c) ==
    c.fn \in { "get_device_descriptor", "get_string_descriptor_ascii",
               "control_transfer", "get_string_descriptor", "get_bos_descriptor",
               "free_bos_descriptor", "close" }

\* C19: every call that uses the device handle comes after the open that
\* returned it and, unless it is the close itself, with no close before it;
\* once the handle is closed test_device has been left; once the BOS
\* descriptor is freed the walk is over: no entry is looked at, and no MS OS
\* 2.0 transfer is issued, after free_bos_descriptor.
C19_NoUseAfterRelease ==
    /\ \A k \in 1..Len(calls) :
          UsesHandle(calls[k]) =>
             /\ handle = 1
             /\ \E j \in 1..(k - 1) : calls[j].fn = "open_device_with_vid_pid"
             /\ \A j \in 1..(k - 1) : calls[j].fn # "close"
    /\ \A k \in 1..Len(calls) :
          calls[k].fn = "free_bos_descriptor" =>
             \A j \in (k + 1)..Len(calls) : calls[j].fn \in { "close", "exit" }
    /\ CountCalls("close") > 0 => pc \in { "main_finally", "exited" }
    /\ CountCalls("free_bos_descriptor") > 0 =>
          /\ pc \in { "finally", "main_finally", "exited" }
          /\ Len(walked) = bos.bNumDeviceCaps

\* C19 witness: a run with string reads, all the readers' transfers and a walk
\* has ended, the BOS descriptor freed and then the handle closed
C19_Witness ==
    /\ pc = "exited"
    /\ Len(calls) > 3
    /\ calls[Len(calls) - 2].fn = "free_bos_descriptor"
    /\ calls[Len(calls) - 1].fn = "close"
    /\ CountCalls("get_string_descriptor_ascii") = 1
    /\ CallsWhere(IsExtCompatTransfer) = 2
    /\ CallsWhere(IsMs20Transfer) = 4

====
